---- MODULE Spec2Model ----
(***************************************************************************)
(* A model of package util of goulash/osutil: the archive helpers of       *)
(* archive.go (ReadFileFromTar, Decompressor, DirReader) and the           *)
(* existence checks IsExists, IsFileExists, IsDirectoryExists.             *)
(*                                                                         *)
(* Strings are sequences of one-character strings, so that path.Clean,     *)
(* path.Dir, path.Ext and the comparison of entry names work on the        *)
(* characters as the Go code does.  A tar archive is a sequence of         *)
(* entries (name, body); the tar.Reader is a record holding its position.  *)
(***************************************************************************)
EXTENDS Integers, Sequences, FiniteSets, TLC

VARIABLES
    archive,      \* the entries of the tar stream under the tar.Reader
    fault,        \* where the tar stream is damaged, if anywhere
    eager,        \* TRUE: tar.Reader.Read reports io.EOF with the last bytes
    tr,           \* the tar.Reader: position, offset in the body, sticky error
    file,         \* ReadFileFromTar: the name looked for
    fx,           \* ReadFileFromTar: whether it returned, and the (bytes, err)
    dr,           \* the dirReader: tr (held or not), hdr, base, err
    rets,         \* what DirReader's Read calls returned, in call order
    filepath,     \* NewDecompressor: the path given
    d,            \* the Decompressor handle, once NewDecompressor returned
    os,           \* the base file and the codec stream as the system sees them
    calls,        \* what NewDecompressor and the Close calls did and returned
    fs,           \* the file system: what os.Stat finds at each path
    checks        \* what the IsExists, IsFileExists, IsDirectoryExists calls returned

vars == <<archive, fault, eager, tr, file, fx, dr, rets, filepath, d, os, calls, fs, checks>>

----------------------------------------------------------------------------
(* Bounds *)

MaxEntries == 3     \* entries of an archive (after the directory marker)
MaxBuf == 2         \* length of the buffer handed to Read
MaxReads == 5       \* Read calls on one dirReader
MaxCalls == 3       \* Read and Close calls on one Decompressor
MaxChecks == 2      \* IsExists, IsFileExists, IsDirectoryExists calls

----------------------------------------------------------------------------
(* Errors: a kind, and for the formatted ones the text's argument *)

Err(kind) == [kind |-> kind, arg |-> <<>>]
NilErr == Err("nil")
EOF == Err("EOF")
ErrHeader == Err("ErrHeader")
ErrUnexpectedEOF == Err("ErrUnexpectedEOF")

Min(a, b) == IF a < b THEN a ELSE b

----------------------------------------------------------------------------
(* package path *)

\* the elements of p between slashes, empty ones included
RECURSIVE Components(_)
Components(p) ==
    IF p = <<>> THEN << <<>> >>
    ELSE LET rest == Components(Tail(p)) IN
         IF Head(p) = "/" THEN << <<>> >> \o rest
         ELSE << <<Head(p)>> \o Head(rest) >> \o Tail(rest)

\* the elements that remain after ".", "" and ".." are processed
RECURSIVE CleanStack(_, _, _)
CleanStack(comps, stack, rooted) ==
    IF comps = <<>> THEN stack
    ELSE LET c == Head(comps) IN
         IF c = <<>> \/ c = <<".">> THEN CleanStack(Tail(comps), stack, rooted)
         ELSE IF c = <<".", ".">> THEN
              IF stack # <<>> /\ stack[Len(stack)] # <<".", ".">>
              THEN CleanStack(Tail(comps), SubSeq(stack, 1, Len(stack) - 1), rooted)
              ELSE IF rooted THEN CleanStack(Tail(comps), stack, rooted)
              ELSE CleanStack(Tail(comps), Append(stack, c), rooted)
         ELSE CleanStack(Tail(comps), Append(stack, c), rooted)

RECURSIVE Join(_)
Join(stack) ==
    IF stack = <<>> THEN <<>>
    ELSE IF Len(stack) = 1 THEN stack[1]
    ELSE stack[1] \o <<"/">> \o Join(Tail(stack))

\* path.Clean: the shortest path name equivalent to p
Clean(p) ==
    LET rooted == p # <<>> /\ p[1] = "/"
        body == Join(CleanStack(Components(p), <<>>, rooted))
        out == (IF rooted THEN <<"/">> ELSE <<>>) \o body
    IN IF out = <<>> THEN <<".">> ELSE out

\* the index of the last c in p, 0 when there is none
RECURSIVE LastIndex(_, _)
LastIndex(p, c) ==
    IF p = <<>> THEN 0
    ELSE IF p[Len(p)] = c THEN Len(p)
    ELSE LastIndex(SubSeq(p, 1, Len(p) - 1), c)

\* Dir, were the first element of p taken for its directory
Dir_top(p) == IF Len(Components(p)) > 1 THEN Clean(Components(p)[1]) ELSE <<".">>

\* path.Dir: all but the last element of p, cleaned
Dir(p) == Clean(SubSeq(p, 1, LastIndex(p, "/")))

\* Ext, were a name ending in gz taken for a .gz file, dot or no dot
Ext_suffix(p) ==
    IF Len(p) >= 2 /\ SubSeq(p, Len(p) - 1, Len(p)) = <<"g", "z">> THEN <<".", "g", "z">>
    ELSE LET dot == LastIndex(p, ".") IN
         IF dot > LastIndex(p, "/") THEN SubSeq(p, dot, Len(p)) ELSE <<>>

\* path.Ext: the suffix from the last dot of the last element of p
Ext(p) ==
    LET dot == LastIndex(p, ".") IN
    IF dot > LastIndex(p, "/") THEN SubSeq(p, dot, Len(p)) ELSE <<>>

----------------------------------------------------------------------------
(* Archives: the entry names used, and the bodies stored under them *)

N_dir  == <<"d", "/">>
N_da   == <<"d", "/", "a">>
N_db   == <<"d", "/", "b">>
N_de   == <<"d", "/", "e">>
N_dsx  == <<"d", "/", "s", "/", "x">>
N_oc   == <<"o", "/", "c">>
N_dda  == <<".", "/", "d", "/", "a">>
N_d    == <<"d">>
N_zz   == <<"z", "z">>

\* the number of body bytes stored under a name (d/e is an empty file)
BodyLen(name) ==
    IF name = N_da THEN 2
    ELSE IF name \in {N_db, N_dsx, N_oc, N_dda} THEN 1
    ELSE 0

\* the entry stored at index i under name: its bytes differ from those of
\* every other entry of the archive
Entry(i, name) ==
    [name |-> name, body |-> [j \in 1..BodyLen(name) |-> 10 * i + j]]

MkArchive(names) == [i \in 1..Len(names) |-> Entry(i, names[i])]

\* the sequences over S of length 0..n
RECURSIVE SeqsUpTo(_, _)
SeqsUpTo(S, n) ==
    IF n = 0 THEN {<<>>}
    ELSE LET shorter == SeqsUpTo(S, n - 1) IN
         shorter \cup {Append(q, x) : q \in {r \in shorter : Len(r) = n - 1}, x \in S}

\* the damage of a tar stream: none, a header that does not parse (the one
\* of entry at, or the end marker when at is one past the last entry), or a
\* stream cut off after t bytes of the body of entry at
NoFault == [kind |-> "none", at |-> 0, t |-> 0]

Faults(a) ==
    {NoFault}
    \cup {[kind |-> "hdr", at |-> i, t |-> 0] : i \in 1..(Len(a) + 1)}
    \cup UNION {{[kind |-> "body", at |-> i, t |-> t] : t \in 0..(Len(a[i].body) - 1)} :
                 i \in 1..Len(a)}

----------------------------------------------------------------------------
(* archive/tar: the Reader as ReadFileFromTar and dirReader use it *)

\* tar.NewReader: before the first entry
NewReader == [pos |-> 0, off |-> 0, err |-> NilErr, nexts |-> 0]

\* tar.Reader.Next on stream a damaged as f: the reader after the call, the
\* header returned (the index of its entry, 0 for a nil header) and the error
TrNext(a, f, t) ==
    LET fail(e) == [tr |-> [t EXCEPT !.err = e, !.nexts = @ + 1], hdr |-> 0, err |-> e]
    IN  IF t.err # NilErr THEN fail(t.err)
        ELSE IF f.kind = "body" /\ f.at = t.pos THEN fail(ErrUnexpectedEOF)
        ELSE IF f.kind = "hdr" /\ f.at = t.pos + 1 THEN fail(ErrHeader)
        ELSE IF t.pos >= Len(a) THEN fail(EOF)
        ELSE [tr |-> [pos |-> t.pos + 1, off |-> 0, err |-> NilErr, nexts |-> t.nexts + 1],
              hdr |-> t.pos + 1, err |-> NilErr]

\* the byte counts a tar.Reader.Read into a buffer of blen bytes can produce
ReadCounts(a, f, t, blen) ==
    IF t.err # NilErr \/ t.pos = 0 THEN {0}
    ELSE LET size == Len(a[t.pos].body)
             avail == (IF f.kind = "body" /\ f.at = t.pos THEN f.t ELSE size) - t.off
         IN  IF size = t.off \/ blen = 0 \/ avail = 0 THEN {0}
             ELSE 1..Min(blen, avail)

\* tar.Reader.Read producing n bytes: the reader after the call, the bytes
\* and the error
TrRead(a, f, eof, t, blen, n) ==
    IF t.err # NilErr THEN [tr |-> t, data |-> <<>>, err |-> t.err]
    ELSE IF t.pos = 0 THEN [tr |-> t, data |-> <<>>, err |-> EOF]
    ELSE LET body == a[t.pos].body
             cut == f.kind = "body" /\ f.at = t.pos
         IN  IF Len(body) = t.off THEN [tr |-> t, data |-> <<>>, err |-> EOF]
             ELSE IF blen = 0 THEN [tr |-> t, data |-> <<>>, err |-> NilErr]
             ELSE IF cut /\ f.t = t.off
                  THEN [tr |-> [t EXCEPT !.err = ErrUnexpectedEOF],
                        data |-> <<>>, err |-> ErrUnexpectedEOF]
             ELSE [tr |-> [t EXCEPT !.off = @ + n],
                   data |-> SubSeq(body, t.off + 1, t.off + n),
                   err |-> IF eof /\ t.off + n = Len(body) THEN EOF ELSE NilErr]

\* ioutil.ReadAll(tr): Read until an error; io.EOF is the regular end
RECURSIVE ReadAll(_, _, _, _, _)
ReadAll(a, f, eof, t, acc) ==
    LET blen == MaxBuf
        n == CHOOSE m \in ReadCounts(a, f, t, blen) :
                 \A k \in ReadCounts(a, f, t, blen) : k <= m
        r == TrRead(a, f, eof, t, blen, n)
    IN  IF r.err = EOF THEN [tr |-> r.tr, bytes |-> acc \o r.data, err |-> NilErr]
        ELSE IF r.err # NilErr THEN [tr |-> r.tr, bytes |-> acc \o r.data, err |-> r.err]
        ELSE ReadAll(a, f, eof, r.tr, acc \o r.data)

----------------------------------------------------------------------------
(* ReadFileFromTar *)

\* NotFound, were the end of the archive passed on as it came
NotFound_eof(name) == EOF

\* fmt.Errorf("file '%s' not found", file)
NotFound(name) == [kind |-> "NotFound", arg |-> name]

\* a returned ([]byte, error): isNil tells a nil slice from an empty one
Result(isNil, bytes, err, t) == [isNil |-> isNil, bytes |-> bytes, err |-> err, tr |-> t]

\* NameMatches, were the two names cleaned before they are compared
NameMatches_cleaned(name, target) == Clean(name) = Clean(target)

\* hdr.Name == file
NameMatches(name, target) == name = target

\* ScanFor, were every error of Next taken for the end of the archive
RECURSIVE ScanFor_anyErrEnds(_, _, _, _, _)
ScanFor_anyErrEnds(a, f, eof, t, target) ==
    LET nx == TrNext(a, f, t) IN
    IF nx.err # NilErr THEN Result(TRUE, <<>>, NotFound(target), nx.tr)
    ELSE IF NameMatches(a[nx.hdr].name, target)
         THEN LET all == ReadAll(a, f, eof, nx.tr, <<>>) IN
              IF all.err # NilErr THEN Result(TRUE, <<>>, all.err, all.tr)
              ELSE Result(FALSE, all.bytes, NilErr, all.tr)
    ELSE ScanFor_anyErrEnds(a, f, eof, nx.tr, target)

\* the loop of ReadFileFromTar with the reader at t
RECURSIVE ScanFor(_, _, _, _, _)
ScanFor(a, f, eof, t, target) ==
    LET nx == TrNext(a, f, t) IN
    IF nx.err = EOF THEN Result(TRUE, <<>>, NotFound(target), nx.tr)
    ELSE IF nx.err # NilErr THEN Result(TRUE, <<>>, nx.err, nx.tr)
    ELSE IF NameMatches(a[nx.hdr].name, target)
         THEN LET all == ReadAll(a, f, eof, nx.tr, <<>>) IN
              IF all.err # NilErr THEN Result(TRUE, <<>>, all.err, all.tr)
              ELSE Result(FALSE, all.bytes, NilErr, all.tr)
    ELSE ScanFor(a, f, eof, nx.tr, target)

ReadFileFromTarResult(a, f, eof, target) == ScanFor(a, f, eof, NewReader, target)

FileNames == {N_da, N_db, N_de, N_dda, N_oc}
Targets == {N_da, N_de, N_d, N_zz, N_oc}

Idle == [done |-> FALSE, isNil |-> TRUE, bytes |-> <<>>, err |-> NilErr]
NoHandle == [file |-> "nil", reader |-> "nil", closer |-> "nil"]
NoDirReader == [tr |-> FALSE, hdr |-> 0, base |-> <<>>, err |-> NilErr]
OsInit == [file |-> "unopened", releases |-> 0, codec |-> "absent", codecCloses |-> 0]

\* the variables of the other operations, at rest
DirIdle == dr = NoDirReader /\ rets = <<>>
DecompIdle == filepath = <<>> /\ d = NoHandle /\ os = OsInit /\ calls = <<>>
ExistsIdle == fs = <<>> /\ checks = <<>>

InitF ==
    /\ archive \in {MkArchive(names) : names \in SeqsUpTo(FileNames, MaxEntries)}
    /\ fault \in Faults(archive)
    /\ eager \in BOOLEAN
    /\ tr = NewReader
    /\ file \in Targets
    /\ fx = Idle
    /\ DirIdle /\ DecompIdle /\ ExistsIdle

\* ReadFileFromTar(r, file) on a stream holding archive
ReadFileFromTar ==
    /\ fx = Idle
    /\ LET res == ReadFileFromTarResult(archive, fault, eager, file) IN
       /\ fx' = [done |-> TRUE, isNil |-> res.isNil, bytes |-> res.bytes, err |-> res.err]
       /\ tr' = res.tr
    /\ UNCHANGED <<archive, fault, eager, file, dr, rets, filepath, d, os, calls, fs, checks>>

NextF == ReadFileFromTar

SpecF == InitF /\ [][NextF]_vars

----------------------------------------------------------------------------
(* DirReader and dirReader.Read *)

\* what one Read call returned: n, err and the n bytes it put in the buffer
Ret(data, err) == [n |-> Len(data), err |-> err, data |-> data]

\* a Read call that did not return: dr.hdr.Name with dr.hdr nil
Panic == Ret(<<>>, Err("panic"))

\* Base, were the name of the directory taken as it is written
Base_raw(name) == name

\* base: path.Clean(dirHeader.Name)
Base(name) == Clean(name)

\* path.Dir(dr.hdr.Name) != dr.base
Outside(a, drr) == Dir(a[drr.hdr].name) # drr.base

\* DirReader(tr, dirHeader) with tr at t and dirHeader the header of entry m:
\* the dirReader made and the reader after the one Next call
NewDirReader(a, f, t, m) ==
    LET nx == TrNext(a, f, t) IN
    [dr |-> [tr |-> TRUE, hdr |-> nx.hdr, base |-> Base(a[m].name), err |-> nx.err],
     tr |-> nx.tr]

\* ReadLoop, were the io.EOF that comes with the last bytes of an entry passed on
RECURSIVE ReadLoop_noFold(_, _, _, _, _, _, _)
ReadLoop_noFold(a, f, eof, drr, t, blen, want) ==
    IF drr.hdr = 0 THEN [dr |-> drr, tr |-> t, ret |-> Panic]
    ELSE IF Outside(a, drr) THEN [dr |-> drr, tr |-> t, ret |-> Ret(<<>>, EOF)]
    ELSE LET counts == ReadCounts(a, f, t, blen)
             n == IF counts = {0} THEN 0 ELSE Min(want, Min(blen, Cardinality(counts)))
             r == TrRead(a, f, eof, t, blen, n)
         IN  IF Len(r.data) > 0
             THEN [dr |-> drr, tr |-> r.tr, ret |-> Ret(r.data, r.err)]
             ELSE IF r.err # EOF
             THEN [dr |-> drr, tr |-> r.tr, ret |-> Ret(<<>>, r.err)]
             ELSE LET nx == TrNext(a, f, r.tr)
                      adv == [drr EXCEPT !.hdr = nx.hdr]
                  IN  IF nx.err # NilErr
                      THEN [dr |-> adv, tr |-> nx.tr, ret |-> Ret(<<>>, nx.err)]
                      ELSE ReadLoop_noFold(a, f, eof, adv, nx.tr, blen, want)

\* ReadLoop, were the error of a failed advance kept in dr.err for the next call
RECURSIVE ReadLoop_defers(_, _, _, _, _, _, _)
ReadLoop_defers(a, f, eof, drr, t, blen, want) ==
    IF drr.hdr = 0 THEN [dr |-> drr, tr |-> t, ret |-> Panic]
    ELSE IF Outside(a, drr) THEN [dr |-> drr, tr |-> t, ret |-> Ret(<<>>, EOF)]
    ELSE LET counts == ReadCounts(a, f, t, blen)
             n == IF counts = {0} THEN 0 ELSE Min(want, Min(blen, Cardinality(counts)))
             r == TrRead(a, f, eof, t, blen, n)
         IN  IF Len(r.data) > 0
             THEN [dr |-> drr, tr |-> r.tr, ret |-> Ret(r.data, IF r.err = EOF THEN NilErr ELSE r.err)]
             ELSE IF r.err # EOF
             THEN [dr |-> drr, tr |-> r.tr, ret |-> Ret(<<>>, r.err)]
             ELSE LET nx == TrNext(a, f, r.tr)
                      adv == [drr EXCEPT !.hdr = nx.hdr]
                  IN  IF nx.err # NilErr
                      THEN [dr |-> [adv EXCEPT !.err = nx.err], tr |-> nx.tr, ret |-> Ret(<<>>, NilErr)]
                      ELSE ReadLoop_defers(a, f, eof, adv, nx.tr, blen, want)

\* ReadLoop, were the entry outside the directory stepped over when the stream ends
RECURSIVE ReadLoop_skipsOutside(_, _, _, _, _, _, _)
ReadLoop_skipsOutside(a, f, eof, drr, t, blen, want) ==
    IF drr.hdr = 0 THEN [dr |-> drr, tr |-> t, ret |-> Panic]
    ELSE IF Outside(a, drr) THEN [dr |-> drr, tr |-> TrNext(a, f, t).tr, ret |-> Ret(<<>>, EOF)]
    ELSE LET counts == ReadCounts(a, f, t, blen)
             n == IF counts = {0} THEN 0 ELSE Min(want, Min(blen, Cardinality(counts)))
             r == TrRead(a, f, eof, t, blen, n)
         IN  IF Len(r.data) > 0
             THEN [dr |-> drr, tr |-> r.tr, ret |-> Ret(r.data, IF r.err = EOF THEN NilErr ELSE r.err)]
             ELSE IF r.err # EOF
             THEN [dr |-> drr, tr |-> r.tr, ret |-> Ret(<<>>, r.err)]
             ELSE LET nx == TrNext(a, f, r.tr)
                      adv == [drr EXCEPT !.hdr = nx.hdr]
                  IN  IF nx.err # NilErr
                      THEN [dr |-> adv, tr |-> nx.tr, ret |-> Ret(<<>>, nx.err)]
                      ELSE ReadLoop_skipsOutside(a, f, eof, adv, nx.tr, blen, want)

\* the loop of dirReader.Read into a buffer of blen bytes, the stream
\* delivering at most want bytes to one Read of the tar.Reader; the tr of
\* tr.Read(b) is the reader's own dr.tr
RECURSIVE ReadLoop(_, _, _, _, _, _, _)
ReadLoop(a, f, eof, drr, t, blen, want) ==
    IF drr.hdr = 0 THEN [dr |-> drr, tr |-> t, ret |-> Panic]
    ELSE IF Outside(a, drr) THEN [dr |-> drr, tr |-> t, ret |-> Ret(<<>>, EOF)]
    ELSE LET counts == ReadCounts(a, f, t, blen)
             n == IF counts = {0} THEN 0 ELSE Min(want, Min(blen, Cardinality(counts)))
             r == TrRead(a, f, eof, t, blen, n)
         IN  IF Len(r.data) > 0
             THEN [dr |-> drr, tr |-> r.tr,
                   ret |-> Ret(r.data, IF r.err = EOF THEN NilErr ELSE r.err)]
             ELSE IF r.err # EOF
             THEN [dr |-> drr, tr |-> r.tr, ret |-> Ret(<<>>, r.err)]
             ELSE LET nx == TrNext(a, f, r.tr)
                      adv == [drr EXCEPT !.hdr = nx.hdr]
                  IN  IF nx.err # NilErr
                      THEN [dr |-> adv, tr |-> nx.tr, ret |-> Ret(<<>>, nx.err)]
                      ELSE ReadLoop(a, f, eof, adv, nx.tr, blen, want)

\* DirRead, were the deferred error left in place when it is returned
DirRead_keepsErr(a, f, eof, drr, t, blen, want) ==
    IF drr.err # NilErr
    THEN [dr |-> drr, tr |-> t, ret |-> Ret(<<>>, drr.err)]
    ELSE ReadLoop(a, f, eof, drr, t, blen, want)

\* dirReader.Read(b) with len(b) = blen
DirRead(a, f, eof, drr, t, blen, want) ==
    IF drr.err # NilErr
    THEN [dr |-> [drr EXCEPT !.err = NilErr], tr |-> t, ret |-> Ret(<<>>, drr.err)]
    ELSE ReadLoop(a, f, eof, drr, t, blen, want)

DirNames == {N_da, N_db, N_de, N_dsx, N_oc}

\* the caller has read the header of the directory, entry 1
AtMarker == [pos |-> 1, off |-> 0, err |-> NilErr, nexts |-> 1]

FileIdle == file = <<>> /\ fx = Idle

InitR ==
    /\ archive \in {MkArchive(<<N_dir>> \o names) : names \in SeqsUpTo(DirNames, MaxEntries)}
    /\ fault \in {g \in Faults(archive) : g.kind = "none" \/ g.at >= 2}
    /\ eager \in BOOLEAN
    /\ tr = AtMarker
    /\ dr = NoDirReader
    /\ rets = <<>>
    /\ FileIdle /\ DecompIdle /\ ExistsIdle

\* dr := DirReader(tr, dirHeader)
DirReader ==
    /\ ~dr.tr
    /\ LET made == NewDirReader(archive, fault, tr, 1) IN
       /\ dr' = made.dr
       /\ tr' = made.tr
    /\ UNCHANGED <<archive, fault, eager, file, fx, rets, filepath, d, os, calls, fs, checks>>

Panicked == rets # <<>> /\ rets[Len(rets)].err.kind = "panic"

\* dr.Read(b), b a buffer of 1..MaxBuf bytes
Read ==
    /\ dr.tr
    /\ ~Panicked
    /\ Len(rets) < MaxReads
    /\ \E blen \in 1..MaxBuf : \E want \in 1..blen :
         LET res == DirRead(archive, fault, eager, dr, tr, blen, want) IN
         /\ dr' = res.dr
         /\ tr' = res.tr
         /\ rets' = Append(rets, res.ret)
    /\ UNCHANGED <<archive, fault, eager, file, fx, filepath, d, os, calls, fs, checks>>

NextR == DirReader \/ Read

SpecR == InitR /\ [][NextR]_vars

----------------------------------------------------------------------------
(* Decompressor *)

P_tar   == <<"a", ".", "t", "a", "r">>
P_gz    == <<"a", ".", "t", "a", "r", ".", "g", "z">>
P_bz2   == <<"a", ".", "t", "a", "r", ".", "b", "z", "2">>
P_xz    == <<"a", ".", "t", "a", "r", ".", "x", "z">>
P_tgz   == <<"a", ".", "t", "g", "z">>
P_none  == <<"a">>
P_dirgz == <<"x", ".", "g", "z", "/", "a">>
P_gztar == <<"a", ".", "g", "z", ".", "t", "a", "r">>

Paths == {P_tar, P_gz, P_bz2, P_xz, P_tgz, P_none, P_dirgz, P_gztar}

ErrOpen == Err("ErrOpen")                  \* os.Open failed
ErrCodec == Err("ErrCodec")                \* lzma.NewReader or gzip.NewReader failed
ErrUnknownFormat == Err("unknown file format")
ErrCodecClose == Err("ErrCodecClose")      \* the Close of the codec stream failed
ErrFileClose == Err("ErrFileClose")        \* close(2) reported an error
ErrClosed == Err("ErrClosed")              \* Close of an os.File closed before

\* one call made on the base file ("file") or on a codec stream, and its error
Ev(what, on, err) == [what |-> what, on |-> on, err |-> err]

\* one call of NewDecompressor or Close: what it did, in order, and its error
Call(op, events, err) == [op |-> op, events |-> events, err |-> err]

\* d.file.Close() on the file as the system holds it: the descriptor is
\* released also when close(2) reports an error; a closed file stays closed
FileClose(o, fails) ==
    IF o.file = "open"
    THEN [os |-> [o EXCEPT !.file = "closed", !.releases = @ + 1],
          err |-> IF fails THEN ErrFileClose ELSE NilErr]
    ELSE [os |-> o, err |-> ErrClosed]

\* d.closer.Close()
CodecClose(o, fails) ==
    [os |-> [o EXCEPT !.codec = "closed", !.codecCloses = @ + 1],
     err |-> IF fails THEN ErrCodecClose ELSE NilErr]

\* NewDecompressor(filepath): os.Open and the codec constructor fail or not
NewDecompressorResult(path, o, openFails, codecFails) ==
    LET opened == [o EXCEPT !.file = "open"]
        withCodec == [opened EXCEPT !.codec = "open"]
        evOpen(e) == Ev("os.Open", "file", e)
        ext == Ext(path)
    IN  IF openFails
        THEN [d |-> NoHandle, os |-> o, call |-> Call("New", <<evOpen(ErrOpen)>>, ErrOpen)]
        ELSE IF ext = <<".", "x", "z">> THEN
             IF codecFails
             THEN [d |-> NoHandle, os |-> opened,
                   call |-> Call("New", <<evOpen(NilErr), Ev("lzma.NewReader", "xz", ErrCodec)>>, ErrCodec)]
             ELSE [d |-> [file |-> "file", reader |-> "xz", closer |-> "xz"], os |-> withCodec,
                   call |-> Call("New", <<evOpen(NilErr), Ev("lzma.NewReader", "xz", NilErr)>>, NilErr)]
        ELSE IF ext = <<".", "g", "z">> THEN
             IF codecFails
             THEN [d |-> NoHandle, os |-> opened,
                   call |-> Call("New", <<evOpen(NilErr), Ev("gzip.NewReader", "gz", ErrCodec)>>, ErrCodec)]
             ELSE [d |-> [file |-> "file", reader |-> "gz", closer |-> "gz"], os |-> withCodec,
                   call |-> Call("New", <<evOpen(NilErr), Ev("gzip.NewReader", "gz", NilErr)>>, NilErr)]
        ELSE IF ext = <<".", "b", "z", "2">> THEN
             [d |-> [file |-> "file", reader |-> "bzip2", closer |-> "nil"], os |-> opened,
              call |-> Call("New", <<evOpen(NilErr), Ev("bzip2.NewReader", "bzip2", NilErr)>>, NilErr)]
        ELSE IF ext = <<".", "t", "a", "r">> THEN
             [d |-> [file |-> "file", reader |-> "file", closer |-> "nil"], os |-> opened,
              call |-> Call("New", <<evOpen(NilErr)>>, NilErr)]
        ELSE [d |-> NoHandle, os |-> opened,
              call |-> Call("New", <<evOpen(NilErr)>>, ErrUnknownFormat)]

\* CloseResult, were the base file closed before the codec stream
CloseResult_fileFirst(dd, o, codecFails, fileFails) ==
    LET outer == FileClose(o, fileFails) IN
    IF dd.closer # "nil"
    THEN LET inner == CodecClose(outer.os, codecFails) IN
         [os |-> inner.os,
          call |-> Call("Close", <<Ev("file.Close", "file", outer.err), Ev("closer.Close", dd.closer, inner.err)>>,
                        IF outer.err # NilErr THEN outer.err ELSE inner.err)]
    ELSE [os |-> outer.os, call |-> Call("Close", <<Ev("file.Close", "file", outer.err)>>, outer.err)]

\* (d *Decompressor) Close(): the closes of the codec stream and of the base
\* file fail or not
CloseResult(dd, o, codecFails, fileFails) ==
    IF dd.closer # "nil"
    THEN LET inner == CodecClose(o, codecFails) IN
         IF inner.err # NilErr
         THEN [os |-> inner.os, call |-> Call("Close", <<Ev("closer.Close", dd.closer, inner.err)>>, inner.err)]
         ELSE LET outer == FileClose(inner.os, fileFails) IN
              [os |-> outer.os,
               call |-> Call("Close", <<Ev("closer.Close", dd.closer, inner.err), Ev("file.Close", "file", outer.err)>>,
                             outer.err)]
    ELSE LET outer == FileClose(o, fileFails) IN
         [os |-> outer.os, call |-> Call("Close", <<Ev("file.Close", "file", outer.err)>>, outer.err)]

ScanIdle == archive = <<>> /\ fault = NoFault /\ eager = FALSE /\ tr = NewReader

InitD ==
    /\ filepath \in Paths
    /\ d = NoHandle
    /\ os = OsInit
    /\ calls = <<>>
    /\ ScanIdle /\ FileIdle /\ DirIdle /\ ExistsIdle

\* d, err := NewDecompressor(filepath)
NewDecompressor ==
    /\ calls = <<>>
    /\ \E openFails \in BOOLEAN : \E codecFails \in BOOLEAN :
         LET res == NewDecompressorResult(filepath, os, openFails, codecFails) IN
         /\ d' = res.d
         /\ os' = res.os
         /\ calls' = <<res.call>>
    /\ UNCHANGED <<archive, fault, eager, tr, file, fx, dr, rets, filepath, fs, checks>>

\* ReadResult, were the base file read in place of the selected transform
ReadResult_onFile(dd, err) == Call("Read", <<Ev("reader.Read", dd.file, err)>>, err)

\* (d *Decompressor) Read(p): d.reader.Read(p), which returns err
ReadResult(dd, err) == Call("Read", <<Ev("reader.Read", dd.reader, err)>>, err)

\* d.Read(p)
DecompressorRead ==
    /\ d # NoHandle
    /\ Len(calls) <= MaxCalls
    /\ \E err \in {NilErr, EOF} : calls' = Append(calls, ReadResult(d, err))
    /\ UNCHANGED <<archive, fault, eager, tr, file, fx, dr, rets, filepath, d, os, fs, checks>>

\* d.Close()
Close ==
    /\ d # NoHandle
    /\ Len(calls) <= MaxCalls
    /\ \E codecFails \in BOOLEAN : \E fileFails \in BOOLEAN :
         LET res == CloseResult(d, os, codecFails, fileFails) IN
         /\ os' = res.os
         /\ calls' = Append(calls, res.call)
    /\ UNCHANGED <<archive, fault, eager, tr, file, fx, dr, rets, filepath, d, fs, checks>>

NextD == NewDecompressor \/ DecompressorRead \/ Close

SpecD == InitD /\ [][NextD]_vars

----------------------------------------------------------------------------
(* IsExists, IsFileExists, IsDirectoryExists *)

Q_f == <<"f">>
Q_gh == <<"g", "/", "h">>

StatPaths == {Q_f, Q_gh}

\* what there is at a path: nothing, a regular file, a directory, or
\* something os.Stat is not permitted to look at
Kinds == {"missing", "file", "dir", "denied"}

ErrNotExist == Err("ErrNotExist")
ErrPermission == Err("ErrPermission")

\* errors.New(fmt.Sprintf("%s exists but is a directory not a file", path))
ErrIsDirectory(path) == [kind |-> "exists but is a directory not a file", arg |-> path]

\* errors.New(fmt.Sprintf("%s exists but is not a directory", path))
ErrNotDirectory(path) == [kind |-> "exists but is not a directory", arg |-> path]

\* an os.FileInfo, nil when not present
NilStat == [present |-> FALSE, isDir |-> FALSE]
FileInfo(isDir) == [present |-> TRUE, isDir |-> isDir]

\* os.Stat(path): a nil FileInfo together with every error
Stat(f, path) ==
    IF f[path] = "file" THEN [stat |-> FileInfo(FALSE), err |-> NilErr]
    ELSE IF f[path] = "dir" THEN [stat |-> FileInfo(TRUE), err |-> NilErr]
    ELSE IF f[path] = "missing" THEN [stat |-> NilStat, err |-> ErrNotExist]
    ELSE [stat |-> NilStat, err |-> ErrPermission]

\* os.IsNotExist(err)
IsNotExist(err) == err = ErrNotExist

\* isExists(path)
isExists(f, path) ==
    LET st == Stat(f, path) IN
    IF st.err # NilErr
    THEN LET exists == ~IsNotExist(st.err) IN
         [exists |-> exists, stat |-> st.stat, err |-> IF ~exists THEN NilErr ELSE st.err]
    ELSE [exists |-> TRUE, stat |-> st.stat, err |-> NilErr]

\* one call and what it returned; panicked: it did not return (a method
\* called on the nil os.FileInfo)
Check(fn, path, exists, err, panicked) ==
    [fn |-> fn, path |-> path, exists |-> exists, err |-> err, panicked |-> panicked]

\* IsExists(path)
IsExistsResult(f, path) ==
    LET r == isExists(f, path) IN Check("IsExists", path, r.exists, r.err, FALSE)

\* IsFileExists(path): err != nil && stat.IsDir()
IsFileExistsResult(f, path) ==
    LET r == isExists(f, path) IN
    IF r.err # NilErr
    THEN IF ~r.stat.present THEN Check("IsFileExists", path, r.exists, r.err, TRUE)
         ELSE IF r.stat.isDir
              THEN Check("IsFileExists", path, r.exists, ErrIsDirectory(path), FALSE)
         ELSE Check("IsFileExists", path, r.exists, r.err, FALSE)
    ELSE Check("IsFileExists", path, r.exists, r.err, FALSE)

\* IsDirectoryExists(path): err != nil && !stat.IsDir()
IsDirectoryExistsResult(f, path) ==
    LET r == isExists(f, path) IN
    IF r.err # NilErr
    THEN IF ~r.stat.present THEN Check("IsDirectoryExists", path, r.exists, r.err, TRUE)
         ELSE IF ~r.stat.isDir
              THEN Check("IsDirectoryExists", path, r.exists, ErrNotDirectory(path), FALSE)
         ELSE Check("IsDirectoryExists", path, r.exists, r.err, FALSE)
    ELSE Check("IsDirectoryExists", path, r.exists, r.err, FALSE)

InitE ==
    /\ fs \in [StatPaths -> Kinds]
    /\ checks = <<>>
    /\ ScanIdle /\ FileIdle /\ DirIdle /\ DecompIdle

CheckPanicked == checks # <<>> /\ checks[Len(checks)].panicked

\* a call can be made: the calls before it returned
CanCheck == Len(checks) < MaxChecks /\ ~CheckPanicked

\* IsExists(path)
IsExists ==
    /\ CanCheck
    /\ \E path \in StatPaths : checks' = Append(checks, IsExistsResult(fs, path))
    /\ UNCHANGED <<archive, fault, eager, tr, file, fx, dr, rets, filepath, d, os, calls, fs>>

\* IsFileExists(path)
IsFileExists ==
    /\ CanCheck
    /\ \E path \in StatPaths : checks' = Append(checks, IsFileExistsResult(fs, path))
    /\ UNCHANGED <<archive, fault, eager, tr, file, fx, dr, rets, filepath, d, os, calls, fs>>

\* IsDirectoryExists(path)
IsDirectoryExists ==
    /\ CanCheck
    /\ \E path \in StatPaths : checks' = Append(checks, IsDirectoryExistsResult(fs, path))
    /\ UNCHANGED <<archive, fault, eager, tr, file, fx, dr, rets, filepath, d, os, calls, fs>>

NextE == IsExists \/ IsFileExists \/ IsDirectoryExists

SpecE == InitE /\ [][NextE]_vars

----------------------------------------------------------------------------
(* ReadFileFromTar: properties *)

\* the smallest index whose entry name is the target, character for
\* character; 0 when no entry has that name
FirstMatch ==
    IF \E k \in 1..Len(archive) : archive[k].name = file
    THEN CHOOSE k \in 1..Len(archive) :
             /\ archive[k].name = file
             /\ \A j \in 1..(k - 1) : archive[j].name # file
    ELSE 0

\* the stream is undamaged up to and including entry k
SoundUpTo(k) == fault.kind = "none" \/ fault.at > k

\* the damage is met before a result can be returned
FaultMet == fault.kind # "none" /\ (FirstMatch = 0 \/ fault.at <= FirstMatch)

\* C7: when entry k is the first whose name equals the target exactly and the
\* stream is sound up to k, ReadFileFromTar returns the body of entry k and
\* no error, and the reader was advanced over entries 1..k only.
C7_FirstExactMatchReturned ==
    (fx.done /\ FirstMatch # 0 /\ SoundUpTo(FirstMatch)) =>
        /\ fx.err = NilErr
        /\ ~fx.isNil
        /\ fx.bytes = archive[FirstMatch].body
        /\ tr.pos = FirstMatch
        /\ tr.nexts = FirstMatch

\* a match at entry 2 of 3, behind an entry whose name only cleans to the target
C7_Witness ==
    /\ fx.done /\ FirstMatch = 2 /\ Len(archive) > 2
    /\ archive[1].name = N_dda /\ file = N_da
    /\ fx.bytes = archive[2].body /\ Len(fx.bytes) = 2
    /\ tr.pos = 2

\* C8: on an undamaged archive with no entry named as the target,
\* ReadFileFromTar visits every entry and returns nil bytes and the not-found
\* error naming the target, never io.EOF or a scan error.
C8_AbsentIsNotFound ==
    (fx.done /\ fault.kind = "none" /\ FirstMatch = 0) =>
        /\ fx.isNil
        /\ fx.err = [kind |-> "NotFound", arg |-> file]
        /\ tr.pos = Len(archive)
        /\ tr.nexts = Len(archive) + 1

\* an archive of two or more entries, none named as the target, one of them
\* inside the directory the target names
C8_Witness ==
    /\ fx.done /\ fault.kind = "none" /\ FirstMatch = 0
    /\ Len(archive) >= 2 /\ file = N_d
    /\ \E k \in 1..Len(archive) : Dir(archive[k].name) = file
    /\ fx.err.kind = "NotFound"

\* the error the damaged stream reports, and the number of Next calls made
\* when it is reported
FaultErr == IF fault.kind = "hdr" THEN ErrHeader ELSE ErrUnexpectedEOF
FaultNexts ==
    IF fault.kind = "hdr" THEN fault.at
    ELSE IF fault.at = FirstMatch THEN fault.at
    ELSE fault.at + 1

\* C9: when the reader reports an error other than io.EOF, on advancing or on
\* reading the matched body, ReadFileFromTar returns that error with nil
\* bytes, makes no further Next call and does not report not-found.
C9_ScanErrorSurfaced ==
    (fx.done /\ FaultMet) =>
        /\ fx.isNil
        /\ fx.bytes = <<>>
        /\ fx.err = FaultErr
        /\ tr.nexts = FaultNexts

\* the stream is cut inside the matched body, after one of its two bytes
C9_Witness ==
    /\ fx.done /\ FaultMet
    /\ fault.kind = "body" /\ fault.at = FirstMatch /\ fault.t = 1
    /\ fx.err = ErrUnexpectedEOF /\ fx.isNil

\* a header that does not parse is met before any entry matches
C9_WitnessHeader ==
    /\ fx.done /\ FaultMet
    /\ fault.kind = "hdr" /\ fault.at = 2 /\ Len(archive) >= 2
    /\ fx.err = ErrHeader

----------------------------------------------------------------------------
(* DirReader: properties *)

RECURSIVE Concat(_)
Concat(seqs) == IF seqs = <<>> THEN <<>> ELSE Head(seqs) \o Concat(Tail(seqs))

\* the bytes the first i Read calls returned, in call order
Out(i) == Concat([k \in 1..i |-> rets[k].data])

IsPrefix(p, q) == Len(p) <= Len(q) /\ SubSeq(q, 1, Len(p)) = p

\* name is a file directly in directory d: d, a slash and one more element
DirectlyInD(name) == Len(name) = 3 /\ name[1] = "d" /\ name[2] = "/" /\ name[3] # "/"

\* the first entry behind the marker that is not directly in d; 0 when the
\* archive ends inside the directory
RunEnd ==
    IF \E j \in 2..Len(archive) : ~DirectlyInD(archive[j].name)
    THEN CHOOSE j \in 2..Len(archive) :
             /\ ~DirectlyInD(archive[j].name)
             /\ \A k \in 2..(j - 1) : DirectlyInD(archive[k].name)
    ELSE 0

\* the bodies of the entries of the run behind the marker, in archive order
RunBodies == Concat([k \in 1..(RunEnd - 2) |-> archive[k + 1].body])

\* C3, as the specification states it: once a Read call has returned
\* end-of-stream, every later Read call returns (0, end-of-stream) and none
\* crashes.  The code breaks it when the archive ends inside the directory.
C3_EofIsTerminal ==
    \A i \in 1..Len(rets) : \A j \in (i + 1)..Len(rets) :
        rets[i].err = EOF => rets[j] = Ret(<<>>, EOF)

\* the error of the Next call DirReader makes, NilErr when it succeeds
ConstructionErr ==
    IF fault.kind = "hdr" /\ fault.at = 2 THEN ErrHeader
    ELSE IF Len(archive) = 1 THEN EOF
    ELSE NilErr

\* C4: DirReader makes one Next call and keeps its error in dr.err; the first
\* Read call returns (0, that error) and clears dr.err, and no later Read
\* call returns it.
C4_DeferredErrorOnce ==
    (dr.tr /\ ConstructionErr # NilErr) =>
        /\ rets = <<>> => (dr.err = ConstructionErr /\ dr.hdr = 0 /\ tr.nexts = AtMarker.nexts + 1)
        /\ rets # <<>> => (rets[1] = Ret(<<>>, ConstructionErr) /\ dr.err = NilErr)
        /\ \A i \in 2..Len(rets) : rets[i].err # ConstructionErr

\* the header behind the marker does not parse, and two Read calls were made
C4_Witness ==
    /\ dr.tr /\ ConstructionErr = ErrHeader
    /\ Len(rets) >= 2
    /\ rets[1] = Ret(<<>>, ErrHeader)
    /\ dr.err = NilErr

\* C5: marker, a run of entries directly in the directory, then an entry
\* outside of it, the stream sound up to that entry: the bytes the Read calls
\* return are, in call order, the bodies of the run in archive order, then
\* end-of-stream; no byte of the outside entry is returned.
C5_RunConcatenated ==
    (RunEnd # 0 /\ archive[RunEnd].name = N_oc /\ SoundUpTo(RunEnd)) =>
        /\ IsPrefix(Out(Len(rets)), RunBodies)
        /\ \A i \in 1..Len(rets) :
              /\ rets[i].err \in {NilErr, EOF}
              /\ rets[i].err = NilErr => rets[i].n >= 1
              /\ rets[i].err = EOF => (rets[i].n = 0 /\ Out(i) = RunBodies)
              /\ Out(i - 1) = RunBodies => rets[i] = Ret(<<>>, EOF)
              /\ \A k \in 1..rets[i].n :
                    \A m \in 1..Len(archive[RunEnd].body) :
                        rets[i].data[k] # archive[RunEnd].body[m]

\* d/a and d/b, then o/c: three bytes returned by three or more Read calls,
\* then end-of-stream
C5_Witness ==
    /\ RunEnd = 4 /\ archive[2].name = N_da /\ archive[3].name = N_db
    /\ archive[4].name = N_oc /\ fault.kind = "none"
    /\ Len(rets) >= 4
    /\ rets[Len(rets)] = Ret(<<>>, EOF)
    /\ Out(Len(rets)) = archive[2].body \o archive[3].body

\* the entries from index j on
BytesFrom(j) == UNION {{archive[k].body[m] : m \in 1..Len(archive[k].body)} :
                          k \in j..Len(archive)}

\* C6: the stream ends at the first entry whose parent is not the directory,
\* an entry of a subdirectory included: the Read calls return the bodies of
\* the entries before it, then end-of-stream, and never a byte of that entry
\* or of an entry behind it.
C6_StopsAtNestedEntry ==
    (RunEnd # 0 /\ archive[RunEnd].name = N_dsx /\ SoundUpTo(RunEnd)) =>
        /\ \A i \in 1..Len(rets) : \A k \in 1..rets[i].n :
              rets[i].data[k] \notin BytesFrom(RunEnd)
        /\ \A i \in 1..Len(rets) :
              (Len(Out(i - 1)) >= Len(RunBodies)) =>
                  (rets[i] = Ret(<<>>, EOF) /\ Out(i) = RunBodies /\ tr.pos = RunEnd)

\* d/a, d/s/x, d/b: the body of d/a, then end-of-stream twice
C6_Witness ==
    /\ Len(archive) = 4 /\ archive[2].name = N_da /\ archive[3].name = N_dsx
    /\ archive[4].name = N_db /\ fault.kind = "none"
    /\ Len(rets) >= 3
    /\ rets[Len(rets)] = Ret(<<>>, EOF) /\ rets[Len(rets) - 1] = Ret(<<>>, EOF)
    /\ Out(Len(rets)) = archive[2].body

----------------------------------------------------------------------------
(* Decompressor: properties *)

\* the Close calls made so far
CloseCalls == {i \in 1..Len(calls) : calls[i].op = "Close"}

\* C1, as the specification states it: once Close has returned on a handle
\* with a codec stream, the base file is closed, whether the close of the
\* codec stream failed or not.  The code returns before d.file.Close() when
\* the codec's close fails.
C1_BaseClosedAfterClose ==
    (d.closer # "nil" /\ CloseCalls # {}) => os.file = "closed"

\* C2, as the specification states it: when NewDecompressor returns an error
\* after the base file was opened, the base file has been released once.
\* The code returns the error with the file left open.
C2_ReleasedOnConstructionError ==
    (calls # <<>> /\ calls[1].err # NilErr /\ calls[1].events[1].err = NilErr) =>
        (os.file = "closed" /\ os.releases = 1)

\* C10: in every Close call the base file is closed only after the close of
\* an existing codec stream was attempted; with no codec stream (.tar, .bz2)
\* Close closes the base file only and returns what that close returned.
C10_CodecClosedBeforeFile ==
    /\ (os.file = "closed" /\ d.closer # "nil") => os.codecCloses >= 1
    /\ \A i \in CloseCalls :
          LET ev == calls[i].events IN
          IF d.closer # "nil"
          THEN /\ ev[1].what = "closer.Close"
               /\ \A k \in 1..Len(ev) : ev[k].what = "file.Close" => k = 2
          ELSE /\ Len(ev) = 1
               /\ ev[1].what = "file.Close"
               /\ calls[i].err = ev[1].err
               /\ os.codecCloses = 0

\* a .gz handle closed: the codec stream, then the base file
C10_Witness ==
    /\ Ext(filepath) = <<".", "g", "z">> /\ d.closer = "gz"
    /\ Len(calls) = 2 /\ calls[2].op = "Close"
    /\ Len(calls[2].events) = 2
    /\ calls[2].events[2].what = "file.Close"
    /\ os.file = "closed" /\ os.codec = "closed"

\* a .bz2 handle closed, the close of the base file reporting an error
C10_WitnessNoCodec ==
    /\ filepath = P_bz2 /\ d.reader = "bzip2" /\ d.closer = "nil"
    /\ Len(calls) = 2 /\ calls[2].op = "Close"
    /\ calls[2].err = ErrFileClose
    /\ os.file = "closed" /\ os.releases = 1

\* the paths whose last element ends in none of .tar, .gz, .bz2, .xz
UnknownPaths == {P_tgz, P_none, P_dirgz}

\* C11: on a path with an unrecognized extension, the base file once opened,
\* NewDecompressor returns the unknown-format error and no handle; it
\* constructs no codec stream, and os.Open is the only call it has made.
C11_UnknownExtensionRejected ==
    (calls # <<>> /\ filepath \in UnknownPaths /\ calls[1].events[1].err = NilErr) =>
        /\ calls[1].err = ErrUnknownFormat
        /\ d = NoHandle
        /\ calls[1].events = <<Ev("os.Open", "file", NilErr)>>
        /\ os.codec = "absent" /\ os.codecCloses = 0
        /\ Len(calls) = 1

\* a.tgz, and x.gz/a whose only dot is in the directory: rejected, the base
\* file the one thing opened
C11_Witness ==
    /\ calls # <<>> /\ filepath \in {P_tgz, P_dirgz}
    /\ calls[1].err = ErrUnknownFormat
    /\ os.file = "open" /\ os.codec = "absent"

\* the transform each path's last extension selects
SelectedFor(path) ==
    IF path \in {P_tar, P_gztar} THEN "file"
    ELSE IF path = P_gz THEN "gz"
    ELSE IF path = P_bz2 THEN "bzip2"
    ELSE IF path = P_xz THEN "xz"
    ELSE "nil"

\* the Read calls made so far
ReadCalls == {i \in 1..Len(calls) : calls[i].op = "Read"}

\* C12: the last extension of the path alone selects the transform: .tar the
\* base file itself, .gz gzip, .bz2 bzip2, .xz lzma; a codec constructor that
\* rejects the content yields no handle, never another transform; every Read
\* on the handle is one Read of the selected transform, its error returned.
C12_ExtensionSelectsTransform ==
    /\ d # NoHandle =>
          /\ d.reader = SelectedFor(filepath)
          /\ d.reader # "nil"
          /\ \A k \in 2..Len(calls[1].events) : calls[1].events[k].on = d.reader
          /\ Len(calls[1].events) = (IF d.reader = "file" THEN 1 ELSE 2)
    /\ (calls # <<>> /\ d = NoHandle) => calls[1].err # NilErr
    /\ \A i \in ReadCalls :
          calls[i].events = <<Ev("reader.Read", SelectedFor(filepath), calls[i].err)>>

\* a.gz.tar is read from the base file, not through gzip
C12_WitnessPassThrough ==
    /\ filepath = P_gztar /\ d.reader = "file"
    /\ Len(calls) >= 2 /\ calls[2].op = "Read"
    /\ calls[2].events[1].on = "file"

\* a.tar.gz is read through gzip
C12_Witness ==
    /\ filepath = P_gz /\ d.reader = "gz"
    /\ Len(calls) >= 2 /\ calls[2].op = "Read"
    /\ calls[2].events[1].on = "gz"

----------------------------------------------------------------------------
(* IsExists, IsFileExists, IsDirectoryExists: properties *)

\* the calls of fn made so far
ChecksOf(fn) == {i \in 1..Len(checks) : checks[i].fn = fn}

\* C13, as the documentation states it: IsFileExists returns exists = true
\* exactly when the path exists and is not a directory, and for a directory
\* it does not return (true, nil).  The code tests err != nil where it means
\* err == nil, so a directory is reported as (true, nil).
C13_FileExistsTellsFiles ==
    \A i \in ChecksOf("IsFileExists") :
        LET c == checks[i] IN
        (~c.panicked /\ fs[c.path] \in {"missing", "file", "dir"}) =>
            /\ c.exists <=> fs[c.path] = "file"
            /\ fs[c.path] = "dir" => ~(c.exists /\ c.err = NilErr)

\* C14, as the documentation states it: IsDirectoryExists returns exists =
\* true exactly when the path exists and is a directory, and for a regular
\* file it does not return (true, nil).  The code reports a regular file as
\* (true, nil).
C14_DirectoryExistsTellsDirectories ==
    \A i \in ChecksOf("IsDirectoryExists") :
        LET c == checks[i] IN
        (~c.panicked /\ fs[c.path] \in {"missing", "file", "dir"}) =>
            /\ c.exists <=> fs[c.path] = "dir"
            /\ fs[c.path] = "file" => ~(c.exists /\ c.err = NilErr)

\* C15, as the documentation states it: each of the three calls returns with
\* err != nil when os.Stat fails for another reason than the path not
\* existing, and returns (false, nil) when the path does not exist.  In
\* IsFileExists and IsDirectoryExists the failed Stat leaves stat nil and
\* stat.IsDir() panics.
C15_StatErrorsReturned ==
    \A i \in 1..Len(checks) :
        LET c == checks[i] IN
        /\ fs[c.path] = "denied" => (~c.panicked /\ c.err # NilErr)
        /\ fs[c.path] = "missing" => (~c.panicked /\ ~c.exists /\ c.err = NilErr)

----------------------------------------------------------------------------
(* dirReader.Read: one call *)

\* the entry a body byte is stored in, and its place in that body
EntryOf(b) == b \div 10
PlaceOf(b) == b % 10

\* the last Read call returned bytes
GotBytes == rets # <<>> /\ rets[Len(rets)].n > 0

\* C16: a Read call that gets n > 0 bytes returns them with no error, the
\* end of the entry included, and does not advance the reader after them: the
\* bytes of one call are of one entry, and n > 0 never comes with io.EOF.
C16_BytesReturnedAtOnce ==
    /\ \A i \in 1..Len(rets) :
          rets[i].n > 0 =>
              /\ rets[i].err = NilErr
              /\ \A k \in 1..rets[i].n : EntryOf(rets[i].data[k]) = EntryOf(rets[i].data[1])
    /\ GotBytes =>
          LET last == rets[Len(rets)] IN
          /\ tr.pos = EntryOf(last.data[1])
          /\ dr.hdr = tr.pos
          /\ tr.off = PlaceOf(last.data[last.n])
          /\ tr.err = NilErr

\* the one byte of d/b came with io.EOF and was returned alone, with the
\* bytes of d/a behind it and the reader still on d/b
C16_Witness ==
    /\ GotBytes /\ eager /\ fault.kind = "none"
    /\ tr.pos < Len(archive)
    /\ archive[tr.pos].name = N_db /\ archive[tr.pos + 1].name = N_da
    /\ tr.off = Len(archive[tr.pos].body)
    /\ rets[Len(rets)] = Ret(archive[tr.pos].body, NilErr)

\* a Next call made by a Read call has failed: DirReader's own Next call
\* succeeded and the reader holds no header
AdvanceFailed == dr.tr /\ ConstructionErr = NilErr /\ dr.hdr = 0

\* the error of the Next call behind the entry the reader stands on
AdvanceErr == IF fault.kind = "hdr" /\ fault.at = tr.pos + 1 THEN ErrHeader ELSE EOF

\* C17: when the entry is exhausted and the advance to the next entry fails,
\* that Read call returns (0, the error of the advance); the error is not
\* kept in dr.err, no further Next call is made, and no later Read call
\* returns bytes.
C17_AdvanceErrorReturnedAtOnce ==
    AdvanceFailed =>
        /\ dr.err = NilErr
        /\ tr.nexts = tr.pos + 1
        /\ \E i \in 1..Len(rets) :
              /\ rets[i] = Ret(<<>>, AdvanceErr)
              /\ \A k \in 1..(i - 1) : rets[k].n > 0 /\ rets[k].err = NilErr
              /\ \A j \in (i + 1)..Len(rets) : rets[j].n = 0 /\ rets[j].err # NilErr

\* the header behind d/a does not parse: the bytes of d/a, the error, and
\* one more Read call
C17_Witness ==
    /\ AdvanceFailed /\ fault.kind = "hdr" /\ fault.at = 3
    /\ archive[2].name = N_da
    /\ Len(rets) >= 3
    /\ rets[Len(rets) - 1] = Ret(<<>>, ErrHeader)
    /\ rets[1].n > 0

\* C18, as stated: whenever dr.err is nil the reader holds a header, so that
\* Read never reads dr.hdr.Name through a nil dr.hdr.  A failed Next call
\* leaves dr.hdr nil, and the Read call after its error was returned panics.
C18_HeaderPresent ==
    /\ (dr.tr /\ dr.err = NilErr) => dr.hdr # 0
    /\ \A i \in 1..Len(rets) : rets[i] # Panic

\* the reader stands on an entry outside the directory
EndedOutside ==
    dr.tr /\ dr.err = NilErr /\ dr.hdr # 0 /\ ~DirectlyInD(archive[dr.hdr].name)

\* C19: when the stream ends at an entry outside the directory, the header
\* of that entry has been read from the caller's tar.Reader and no byte of
\* its body; every Read call from there on returns end-of-stream and leaves
\* the tar.Reader and the reader's header as they are.
C19_OutsideEntryUntouched ==
    /\ [](EndedOutside => (tr.pos = dr.hdr /\ tr.off = 0 /\ tr.nexts = tr.pos /\ tr.err = NilErr))
    /\ [][EndedOutside =>
            (tr' = tr /\ dr' = dr /\ rets' = Append(rets, Ret(<<>>, EOF)))]_vars

\* two Read calls have returned end-of-stream at o/c, which has a body
C19_Witness ==
    /\ EndedOutside /\ archive[dr.hdr].name = N_oc /\ dr.hdr >= 3
    /\ Len(archive[dr.hdr].body) > 0 /\ tr.off = 0
    /\ Len(rets) >= 3
    /\ rets[Len(rets)] = Ret(<<>>, EOF) /\ rets[Len(rets) - 1] = Ret(<<>>, EOF)

====
